---- MODULE Spec2Model ----
(***************************************************************************)
(* The discrete-FDR permutation test of calour (src/calour/dsfdr.py) as a  *)
(* state machine: one call of dsfdr(data, labels, transform_type, method,  *)
(* alpha, numperm, fdr_method), stage by stage.                            *)
(*                                                                         *)
(* float64 values are modelled by exact rationals <<n, d>> in lowest terms *)
(* with d >= 0; <<1,0>> is inf, <<-1,0>> is -inf and <<0,0>> is nan, so    *)
(* that x/0 and 0/0 give what numpy gives.                                 *)
(***************************************************************************)
EXTENDS Integers, Sequences, FiniteSets, TLC

VARIABLES pc, callerData, callerLabels, transform_type, method, alpha,
          numperm, fdr_method, data, dataRef, labels, labelsRef, index,
          tstat, t, p, permlabels, u, pvals, pvals_u, allt, allfdr, foundit,
          reject

vars == <<pc, callerData, callerLabels, transform_type, method, alpha,
          numperm, fdr_method, data, dataRef, labels, labelsRef, index,
          tstat, t, p, permlabels, u, pvals, pvals_u, allt, allfdr, foundit,
          reject>>

----------------------------------------------------------------------------
(* Rational arithmetic *)

RECURSIVE GCD(_, _)
GCD(a, b) == IF b = 0 THEN a ELSE GCD(b, a % b)

Abs(x) == IF x < 0 THEN -x ELSE x

Sgn(x) == IF x > 0 THEN 1 ELSE IF x < 0 THEN -1 ELSE 0

Rat(n, d) ==
    IF d = 0 THEN <<Sgn(n), 0>>
    ELSE LET g == GCD(Abs(n), Abs(d))
         IN  <<(Sgn(d) * n) \div g, Abs(d) \div g>>

Int2Rat(x) == <<x, 1>>

NaN == <<0, 0>>

IsNaN(a) == a = NaN

RNeg(a) == <<-a[1], a[2]>>

RAdd(a, b) ==
    IF a[2] = 0 /\ b[2] = 0
    THEN (IF a[1] = b[1] THEN a ELSE NaN)
    ELSE Rat(a[1] * b[2] + b[1] * a[2], a[2] * b[2])

RSub(a, b) == RAdd(a, RNeg(b))

RMul(a, b) == Rat(a[1] * b[1], a[2] * b[2])

RDiv(a, b) ==
    IF a[2] = 0 /\ b[2] = 0 THEN NaN
    ELSE Rat(a[1] * b[2], a[2] * b[1])

RAbs(a) == <<Abs(a[1]), a[2]>>

\* a <= b, a < b, a >= b as numpy compares floats: false when either is nan
RLeq(a, b) ==
    /\ ~IsNaN(a)
    /\ ~IsNaN(b)
    /\ IF a[2] = 0 /\ b[2] = 0 THEN a[1] <= b[1]
       ELSE a[1] * b[2] <= b[1] * a[2]

RLt(a, b) == RLeq(a, b) /\ a # b

RGeq(a, b) == RLeq(b, a)

\* sqrt of a rational that is a perfect square (nan and inf pass through)
ISqrt(n) == CHOOSE r \in 0..n : r * r = n

RSqrt(q) == IF q[2] = 0 THEN q ELSE <<ISqrt(q[1]), ISqrt(q[2])>>

RECURSIVE RSum(_)
RSum(s) == IF s = <<>> THEN Int2Rat(0) ELSE RAdd(s[1], RSum(Tail(s)))

RECURSIVE ISum(_)
ISum(s) == IF s = <<>> THEN 0 ELSE s[1] + ISum(Tail(s))

\* np.dot of two 1-d arrays
Dot(x, y) == RSum([k \in 1..Len(x) |-> RMul(x[k], y[k])])

\* np.mean of a 1-d array (0/0 = nan for an empty one)
Mean(x) == RDiv(RSum(x), Int2Rat(Len(x)))

\* x[mask]: the entries of x at the positions where mask holds, in order
RECURSIVE Select(_, _)
Select(x, mask) ==
    IF x = <<>> THEN <<>>
    ELSE (IF mask[1] THEN <<x[1]>> ELSE <<>>) \o Select(Tail(x), Tail(mask))

\* labels == v
EqMask(lab, v) == [s \in 1..Len(lab) |-> lab[s] = Int2Rat(v)]

Count(mask) == Cardinality({s \in 1..Len(mask) : mask[s]})

\* every vector of draws with replacement from the entries of a vector
Resamples(x) ==
    {[k \in 1..Len(x) |-> x[f[k]]] : f \in [1..Len(x) -> 1..Len(x)]}

\* every rearrangement of a vector (np.random.permutation / shuffle)
Perms(x) == {[k \in 1..Len(x) |-> x[f[k]]] : f \in Permutations(1..Len(x))}

----------------------------------------------------------------------------
(* Transforms, dsfdr.py 17-41 *)

\* scipy.stats.rankdata with method='min'
MinRankRow(row) ==
    [s \in 1..Len(row) |->
        Int2Rat(1 + Cardinality({k \in 1..Len(row) : RLt(row[k], row[s])}))]

\* scipy.stats.rankdata of a 1-d array, method='average': midranks
MidRank(row) ==
    [s \in 1..Len(row) |->
        LET less == Cardinality({k \in 1..Len(row) : RLt(row[k], row[s])})
            same == Cardinality({k \in 1..Len(row) : row[k] = row[s]})
        IN  Rat(2 * less + same + 1, 2)]

\* rankdata(data) on a 2-d array: a new array of within-row midranks
rankdata(d) == [i \in 1..Len(d) |-> MidRank(d[i])]

\* data[data < 2] = 2, the in-place part of log2data
Clip2(d) ==
    [i \in 1..Len(d) |->
        [s \in 1..Len(d[i]) |->
            IF RLt(d[i][s], Int2Rat(2)) THEN Int2Rat(2) ELSE d[i][s]]]

\* np.log2 of a power of two
Log2(x) == Int2Rat(CHOOSE k \in 1..x[1] : 2 ^ k = x[1])

log2data(d) ==
    [i \in 1..Len(d) |-> [s \in 1..Len(d[i]) |-> Log2(Clip2(d)[i][s])]]

\* data[data != 0] = 1, in place
binarydata(d) ==
    [i \in 1..Len(d) |->
        [s \in 1..Len(d[i]) |->
            IF d[i][s] # Int2Rat(0) THEN Int2Rat(1) ELSE d[i][s]]]

ColSum(d, s) == RSum([i \in 1..Len(d) |-> d[i][s]])

\* data / np.sum(data, axis=0): a new array
normdata(d) ==
    [i \in 1..Len(d) |->
        [s \in 1..Len(d[i]) |-> RDiv(d[i][s], ColSum(d, s))]]

----------------------------------------------------------------------------
(* Test statistics, dsfdr.py 45-184 *)

Group(row, lab, v) == Select(row, EqMask(lab, v))

\* the mean of the second half of the samples minus that of the first half
meandiffByPosition(d, lab) ==
    [i \in 1..Len(d) |->
        RSub(Mean(SubSeq(d[i], (Len(lab) \div 2) + 1, Len(lab))),
             Mean(SubSeq(d[i], 1, Len(lab) \div 2)))]

\* the difference of the means without its sign
meandiffUnsigned(d, lab) ==
    [i \in 1..Len(d) |->
        RAbs(RSub(Mean(Select(d[i], EqMask(lab, 1))),
                  Mean(Select(d[i], EqMask(lab, 0)))))]

\* meandiff: mean of the samples labelled 1 minus mean of those labelled 0
meandiff(d, lab) ==
    [i \in 1..Len(d) |->
        RSub(Mean(Group(d[i], lab, 1)), Mean(Group(d[i], lab, 0)))]

\* np.std(x, ddof=1) ** 2 of a 1-d array (0/0 = nan for fewer than 2 values)
Var1(x) ==
    RDiv(RSum([k \in 1..Len(x) |->
                  RMul(RSub(x[k], Mean(x)), RSub(x[k], Mean(x)))]),
         Int2Rat(Len(x) - 1))

\* stdmeandiff: (mean1 - mean0) / (sd1 + sd0).  The value v is carried as
\* sign(v) * v^2, a strictly increasing encoding that keeps order, ties,
\* abs, inf and nan and is rational whenever sd1 * sd0 is.
StdMeanDiffRow(row, lab) ==
    LET num == RSub(Mean(Group(row, lab, 1)), Mean(Group(row, lab, 0)))
        v1  == Var1(Group(row, lab, 1))
        v0  == Var1(Group(row, lab, 0))
        den == RAdd(RAdd(v1, v0),
                    RMul(Int2Rat(2), RSqrt(RMul(v1, v0))))
    IN  RDiv(RMul(num, RAbs(num)), den)

stdmeandiff(d, lab) == [i \in 1..Len(d) |-> StdMeanDiffRow(d[i], lab)]

\* The module's own rankdata (17-22) is written for 2-d arrays; mannwhitneyU
\* (65) and kruskalH (121) hand it a 1-d array, and data[crow, :] then
\* raises IndexError as soon as the array has one element.
Rank1dRaises(n) == n > 0

mannwhitneyRaises(d, lab) ==
    /\ Len(d) > 0
    /\ Rank1dRaises(Count(EqMask(lab, 0)) + Count(EqMask(lab, 1)))

NumUnique(lab) == Cardinality({lab[s] : s \in 1..Len(lab)})

kruwallisRaises(d, lab) ==
    /\ Len(d) > 0
    /\ \/ NumUnique(lab) < 2
       \/ Rank1dRaises(ISum([j \in 1..NumUnique(lab) |->
                                Count(EqMask(lab, j - 1))]))

\* mannwhitneyU on two empty groups: U = min(0, 0)
mannwhitney(d, lab) == [i \in 1..Len(d) |-> Int2Rat(0)]

\* kruskalH on empty groups only: 12/(0*1) * (0/0) - 3 = nan
kruwallis(d, lab) == [i \in 1..Len(d) |-> NaN]

\* x - np.mean(x)
Center(x) == [k \in 1..Len(x) |-> RSub(x[k], Mean(x))]

\* data - np.repeat(meanval, S, axis=1)
CenterRows(d) == [i \in 1..Len(d) |-> Center(d[i])]

\* np.dot(data, labels): one dot product per row
MatVec(d, lab) == [i \in 1..Len(d) |-> Dot(d[i], lab)]

\* np.nonzero(data[i, :])
NonzeroMask(row) == [s \in 1..Len(row) |-> row[s] # Int2Rat(0)]

\* the samples of row i used by the nonzero variants (345-352)
SampleNonzero(row, m) ==
    LET x == Select(row, NonzeroMask(row))
    IN  Center(IF m = "nonzerospearman" THEN MidRank(x) ELSE x)

LabelNonzero(row, lab, m) ==
    LET x == Select(lab, NonzeroMask(row))
    IN  Center(IF m = "nonzerospearman" THEN MidRank(x) ELSE x)

\* a statistic function supplied by the caller (a plain Python function):
\* sum of the samples labelled 1 minus sum of the samples labelled 0
UserStat(d, lab) ==
    [i \in 1..Len(d) |->
        RSub(RSum(Group(d[i], lab, 1)), RSum(Group(d[i], lab, 0)))]

\* method(data, labels) for the methods of the explicit permutation loop
LoopStat(m, d, lab) ==
    CASE m = "mannwhitney" -> mannwhitney(d, lab)
      [] m = "kruwallis"   -> kruwallis(d, lab)
      [] m = "stdmeandiff" -> stdmeandiff(d, lab)
      [] OTHER             -> UserStat(d, lab)

LoopStatRaises(m, d, lab) ==
    \/ m = "mannwhitney" /\ mannwhitneyRaises(d, lab)
    \/ m = "kruwallis" /\ kruwallisRaises(d, lab)

AbsVec(x) == [k \in 1..Len(x) |-> RAbs(x[k])]

----------------------------------------------------------------------------
(* Permutation p-values, dsfdr.py 375-391 and 423-431 *)

\* the defaults of np.isclose: rtol = 1/RTolInv, atol = 1/ATolInv
RTolInv == 100000

ATolInv == 100000000

\* np.isclose(a, b): |a - b| <= atol + rtol * |b|; equal infinities are
\* close, nan is close to nothing.  With diff = dn/dd and |b| = bn/bd the
\* test is dn * bd <= (dd * bd) / ATolInv + (bn * dd) / RTolInv, computed in
\* whole numbers
IsClose(a, b) ==
    IF IsNaN(a) \/ IsNaN(b) THEN FALSE
    ELSE IF a[2] = 0 \/ b[2] = 0 THEN a = b
    ELSE LET diff == RAbs(RSub(a, b))
             babs == RAbs(b)
         IN  diff[1] * babs[2] <=
                 (((diff[2] * babs[2]) \div (ATolInv \div RTolInv))
                    + babs[1] * diff[2]) \div RTolInv

\* the null left as computed
SnapNothing(tt, uu) == uu

\* u[crow, closepos] = t[crow] for every row (377-379)
SnapClose(tt, uu) ==
    [i \in 1..Len(uu) |->
        [c \in 1..Len(uu[i]) |->
            IF IsClose(tt[i], uu[i][c]) THEN tt[i] ELSE uu[i][c]]]

\* scipy.stats.rankdata(x, method='min')[k]
MinRank(x, k) == 1 + Cardinality({j \in 1..Len(x) : RLt(x[j], x[k])})

RankPvalueOffByOne(x) ==
    [k \in 1..Len(x) |-> RSub(Int2Rat(1), Rat(MinRank(x, k), Len(x)))]

\* 1 - ((stat_rank - 1) / len(allstat)) (387-388)
RankPvalue(x) ==
    [k \in 1..Len(x) |->
        RSub(Int2Rat(1), Rat(MinRank(x, k) - 1, Len(x)))]

\* np.hstack([t[crow], u[crow, :]]) (386)
AllStat(tt, uu, i) == <<tt[i]>> \o uu[i]

PvalsOf(tt, uu) ==
    [i \in 1..Len(tt) |-> RankPvalue(AllStat(tt, uu, i))[1]]

PvalsUOf(tt, uu) ==
    [i \in 1..Len(tt) |-> Tail(RankPvalue(AllStat(tt, uu, i)))]

HasNaN(tt, uu) ==
    \E i \in 1..Len(tt) :
        IsNaN(tt[i]) \/ \E c \in 1..Len(uu[i]) : IsNaN(uu[i][c])

\* the tail count with u > t in place of u >= t
TailPvalueStrict(tt, uu, np) ==
    [i \in 1..Len(tt) |->
        Rat(Cardinality({c \in 1..Len(uu[i]) : RLt(tt[i], uu[i][c])}) + 1,
            np + 1)]

\* (np.sum(u >= t_star, axis=1) + 1) / (numperm + 1) (424-425, 429-430)
TailPvalue(tt, uu, np) ==
    [i \in 1..Len(tt) |->
        Rat(Cardinality({c \in 1..Len(uu[i]) : RGeq(uu[i][c], tt[i])}) + 1,
            np + 1)]

----------------------------------------------------------------------------
(* FDR procedures, dsfdr.py 393-436 *)

RMax(S) == CHOOSE x \in S : \A y \in S : RLeq(y, x)

RMin(S) == CHOOSE x \in S : \A y \in S : RLeq(x, y)

RECURSIVE SortDesc(_)
SortDesc(S) ==
    IF S = {} THEN <<>> ELSE <<RMax(S)>> \o SortDesc(S \ {RMax(S)})

RECURSIVE SortAsc(_)
SortAsc(S) ==
    IF S = {} THEN <<>> ELSE <<RMin(S)>> \o SortAsc(S \ {RMin(S)})

\* np.unique(pvals)
Unique(x) == {x[k] : k \in 1..Len(x)}

SortPAscending(pv) == SortAsc(Unique(pv))

\* sortp = pvals_unique[np.argsort(-pvals_unique)] (396-397)
SortP(pv) == SortDesc(Unique(pv))

\* np.sum(x <= cp)
CountLeq(x, cp) == Cardinality({k \in 1..Len(x) : RLeq(x[k], cp)})

\* np.count_nonzero(pvals_u <= cp)
CountLeq2(m, cp) == ISum([i \in 1..Len(m) |-> CountLeq(m[i], cp)])

FdrAtNoObserved(pv, pvu, cp, np) ==
    Rat(CountLeq2(pvu, cp), CountLeq(pv, cp) * (np + 1))

\* the estimate divided by realnum * numperm
FdrAtOverNumperm(pv, pvu, cp, np) ==
    Rat(CountLeq(pv, cp) + CountLeq2(pvu, cp), CountLeq(pv, cp) * np)

\* fdr = (realnum + count_nonzero(pvals_u <= cp)) / (realnum * (numperm+1))
FdrAt(pv, pvu, cp, np) ==
    Rat(CountLeq(pv, cp) + CountLeq2(pvu, cp), CountLeq(pv, cp) * (np + 1))

\* the loop breaking on fdr < alpha
RECURSIVE SearchStrict(_, _, _, _, _, _)
SearchStrict(sortp, k, pv, pvu, np, al) ==
    IF k > Len(sortp)
    THEN [allt |-> <<>>, allfdr |-> <<>>, foundit |-> FALSE]
    ELSE LET cp  == sortp[k]
             fdr == FdrAt(pv, pvu, cp, np)
         IN  IF RLt(fdr, al)
             THEN [allt |-> <<cp>>, allfdr |-> <<fdr>>, foundit |-> TRUE]
             ELSE LET r == SearchStrict(sortp, k + 1, pv, pvu, np, al)
                  IN  [allt    |-> <<cp>> \o r.allt,
                       allfdr  |-> <<fdr>> \o r.allfdr,
                       foundit |-> r.foundit]

\* the loop over sortp (403-412), from candidate k on: what it appends to
\* allt and allfdr and whether it breaks with a threshold
RECURSIVE Search(_, _, _, _, _, _)
Search(sortp, k, pv, pvu, np, al) ==
    IF k > Len(sortp)
    THEN [allt |-> <<>>, allfdr |-> <<>>, foundit |-> FALSE]
    ELSE LET cp  == sortp[k]
             fdr == FdrAt(pv, pvu, cp, np)
         IN  IF RLeq(fdr, al)
             THEN [allt |-> <<cp>>, allfdr |-> <<fdr>>, foundit |-> TRUE]
             ELSE LET r == Search(sortp, k + 1, pv, pvu, np, al)
                  IN  [allt    |-> <<cp>> \o r.allt,
                       allfdr  |-> <<fdr>> \o r.allfdr,
                       foundit |-> r.foundit]

DsfdrRejectLastTried(pv, found, tried) ==
    [i \in 1..Len(pv) |-> RLeq(pv[i], tried[Len(tried)])]

\* reject = (pvals < realcp)
DsfdrRejectBelow(pv, found, tried) ==
    [i \in 1..Len(pv) |-> found /\ RLt(pv[i], tried[Len(tried)])]

\* reject of the dsfdr branch (414-421)
DsfdrReject(pv, found, tried) ==
    IF found
    THEN [i \in 1..Len(pv) |-> RLeq(pv[i], tried[Len(tried)])]
    ELSE [i \in 1..Len(pv) |-> FALSE]

Harmonic(m) == RSum([k \in 1..m |-> Rat(1, k)])

\* multipletests(pvals, alpha, method)[0] for 'fdr_bh' (cm = 1) and 'fdr_by'
\* (cm = 1 + 1/2 + ... + 1/m): with the p-values sorted, the largest k with
\* p(k) <= k/m * alpha/cm, and every p-value up to p(k), are rejected
StepUpReject(pv, al, cm) ==
    LET m == Len(pv)
        Ok(v) == RLeq(v, RMul(Rat(CountLeq(pv, v), m), RDiv(al, cm)))
    IN  [i \in 1..m |->
            \E j \in 1..m : Ok(pv[j]) /\ RLeq(pv[i], pv[j])]

fdr_bh(pv, al) == StepUpReject(pv, al, Int2Rat(1))

fdr_by(pv, al) == StepUpReject(pv, al, Harmonic(Len(pv)))

----------------------------------------------------------------------------
(* filterBH, dsfdr.py 249-264 *)

RECURSIVE Comb(_, _)
Comb(n, k) ==
    IF k = 0 THEN 1
    ELSE IF k > n THEN 0
    ELSE Comb(n - 1, k - 1) + Comb(n - 1, k)

CountNonzero(row) == Count(NonzeroMask(row))

\* pval_min of a row with k nonzero entries (257-259)
PvalMin(n0, n1, k) == Rat(Comb(n0, k) + Comb(n1, k), Comb(n0 + n1, k))

Min2(a, b) == IF a < b THEN a ELSE b

KeepRowAlways(row, lab, al) == TRUE

\* whether row i is appended to index (255-263)
KeepRow(row, lab, al) ==
    LET n0 == Count(EqMask(lab, 0))
        n1 == Count(EqMask(lab, 1))
        nonzeros == CountNonzero(row)
    IN  IF nonzeros < Min2(n0, n1)
        THEN RLeq(PvalMin(n0, n1, nonzeros), al)
        ELSE TRUE

KeptIndex(d, lab, al) ==
    LET Keep(i) == KeepRow(d[i], lab, al)
    IN  SelectSeq([i \in 1..Len(d) |-> i], Keep)

TakeRowsMasked(d, idx) == d

\* data[index, :]
TakeRows(d, idx) == [k \in 1..Len(idx) |-> d[idx[k]]]

----------------------------------------------------------------------------
(* The arguments of the modelled calls *)

\* the largest numperm of a modelled call
MaxPerm == 2

ToRat(m) == [i \in 1..Len(m) |-> [s \in 1..Len(m[i]) |-> Int2Rat(m[i][s])]]

\* N x 4 count matrices (entries 0 or powers of two), each with a row of
\* at least two nonzero entries
OneFeature == ToRat(<< <<1, 1, 4, 4>> >>)

SparseFeatures ==
    ToRat(<< <<1, 2, 4, 1>>, <<0, 0, 0, 2>>, <<0, 2, 0, 1>> >>)

\* two identical rows
TwinFeatures == ToRat(<< <<0, 1, 2, 4>>, <<0, 1, 2, 4>> >>)

\* a row of ties, a row with one zero and an all-zero row
ZeroFeature == ToRat(<< <<1, 1, 4, 4>>, <<0, 2, 1, 4>>, <<0, 0, 0, 0>> >>)

\* one feature, absent from the first sample
AbsentOnce == ToRat(<< <<0, 2, 1, 4>> >>)

\* one feature with counts so large that two of its mean differences,
\* 131072.5 and 131071.5, differ by less than the tolerance of np.isclose
NearTie == ToRat(<< <<0, 1, 262144, 524288>> >>)

Matrices ==
    {OneFeature, SparseFeatures, TwinFeatures, ZeroFeature, AbsentOnce,
     NearTie}

\* one sample labelled 0 and three labelled 1
UnevenGroups == [s \in 1..4 |-> Int2Rat(<<0, 1, 1, 1>>[s])]

LabelVecs ==
    { [s \in 1..4 |-> Int2Rat(<<0, 0, 1, 1>>[s])],
      [s \in 1..4 |-> Int2Rat(<<0, 1, 0, 1>>[s])],
      UnevenGroups }

Transforms ==
    {"rankdata", "log2data", "binarydata", "normdata", "None", "bogus"}

LoopMethods == {"mannwhitney", "kruwallis", "stdmeandiff"}

CorrMethods == {"spearman", "pearson"}

NonzeroMethods == {"nonzerospearman", "nonzeropearson"}

\* callables of type types.FunctionType: a plain function ("userfunc") and
\* a lambda
FunctionTypes == {"userfunc", "lambda"}

\* callables of another type: a bound method (types.MethodType), a
\* functools.partial, an object with __call__, a built-in
\* (types.BuiltinFunctionType)
OtherCallables == {"boundmethod", "partial", "callableobject", "builtin"}

Callables == FunctionTypes \cup OtherCallables

\* isinstance(method, types.FunctionType) (362)
IsFunctionType(m) == m \in FunctionTypes

\* "bogus" is a string that names no method
Methods ==
    {"meandiff"} \cup LoopMethods \cup CorrMethods \cup NonzeroMethods
        \cup Callables \cup {"bogus"}

FdrMethods == {"dsfdr", "bhfdr", "byfdr", "filterBH", "bogus"}

Alphas == {Rat(1, 10), Rat(1, 2), Rat(1, 1)}

\* the calls explored: every transform, every method and every FDR
\* procedure, each crossed with the arguments it interacts with; the
\* nonzero variants, which draw numperm permutations per feature, on the
\* matrices of one or two features, and after every transform that keeps
\* the entries finite on the feature that is absent from one sample
IsCall(d, tr, m, f, al) ==
    /\ \/ m = "meandiff" /\ f \in {"dsfdr", "filterBH"} /\ al = Rat(1, 2)
       \/ tr = "None" /\ f \in {"dsfdr", "bhfdr"} /\ al = Rat(1, 2)
       \/ tr = "rankdata" /\ m = "meandiff"
       \/ m = "bogus" /\ al = Rat(1, 2)
       \/ /\ d = AbsentOnce
          /\ m \in NonzeroMethods
          /\ tr \in {"rankdata", "log2data", "binarydata"}
          /\ al = Rat(1, 2)
    /\ m \in NonzeroMethods => Len(d) <= 2
    /\ d = AbsentOnce => m \in NonzeroMethods /\ f = "dsfdr"
    /\ d = NearTie => m \in {"meandiff", "userfunc"} /\ tr = "None"

----------------------------------------------------------------------------
(* The call, stage by stage *)

Init ==
    /\ pc = "start"
    /\ callerData \in Matrices
    /\ callerLabels \in LabelVecs
    /\ transform_type \in Transforms
    /\ method \in Methods
    /\ fdr_method \in FdrMethods
    /\ alpha \in Alphas
    /\ numperm \in 1..MaxPerm
    /\ IsCall(callerData, transform_type, method, fdr_method, alpha)
    /\ callerLabels = UnevenGroups =>
           /\ method = "meandiff"
           /\ fdr_method = "dsfdr"
           /\ callerData # NearTie
    /\ data = callerData
    /\ dataRef = "caller"
    /\ labels = callerLabels
    /\ labelsRef = "caller"
    /\ index = <<>>
    /\ tstat = <<>>
    /\ t = <<>>
    /\ p = <<>>
    /\ permlabels = <<>>
    /\ u = <<>>
    /\ pvals = <<>>
    /\ pvals_u = <<>>
    /\ allt = <<>>
    /\ allfdr = <<>>
    /\ foundit = FALSE
    /\ reject = <<>>

args == <<transform_type, method, alpha, numperm, fdr_method>>

ArrayCopyAlias(ref) == ref

\* x.copy(): a new array, which the call owns
ArrayCopy(ref) == "local"

\* an in-place write through `data` reaches the caller's matrix exactly when
\* `data` still refers to it
WriteThrough(ref, new) == IF ref = "caller" THEN new ELSE callerData

\* data = data.copy() (247)
CopyData ==
    /\ pc = "start"
    /\ pc' = "copied"
    /\ dataRef' = ArrayCopy(dataRef)
    /\ UNCHANGED <<callerData, callerLabels, args, data, labels, labelsRef,
                   index, tstat, t, p, permlabels, u, pvals, pvals_u, allt,
                   allfdr, foundit, reject>>

\* the filterBH row filter (249-264); data[index, :] is a new array
Filter ==
    /\ pc = "copied"
    /\ pc' = "filtered"
    /\ IF fdr_method = "filterBH"
       THEN /\ index' = KeptIndex(data, labels, alpha)
            /\ data' = TakeRows(data, index')
            /\ dataRef' = "local"
       ELSE UNCHANGED <<index, data, dataRef>>
    /\ UNCHANGED <<callerData, callerLabels, args, labels, labelsRef,
                   tstat, t, p, permlabels, u, pvals, pvals_u, allt, allfdr,
                   foundit, reject>>

\* the transform (266-278): log2data and binarydata write into their
\* argument, rankdata, np.log2 and normdata return new arrays
Transform ==
    /\ pc = "filtered"
    /\ CASE transform_type = "rankdata" ->
              /\ data' = rankdata(data)
              /\ dataRef' = "local"
              /\ pc' = "transformed"
              /\ UNCHANGED callerData
         [] transform_type = "log2data" ->
              /\ callerData' = WriteThrough(dataRef, Clip2(data))
              /\ data' = log2data(data)
              /\ dataRef' = "local"
              /\ pc' = "transformed"
         [] transform_type = "binarydata" ->
              /\ callerData' = WriteThrough(dataRef, binarydata(data))
              /\ data' = binarydata(data)
              /\ pc' = "transformed"
              /\ UNCHANGED dataRef
         [] transform_type = "normdata" ->
              /\ data' = normdata(data)
              /\ dataRef' = "local"
              /\ pc' = "transformed"
              /\ UNCHANGED callerData
         [] transform_type = "None" ->
              /\ pc' = "transformed"
              /\ UNCHANGED <<data, dataRef, callerData>>
         [] OTHER ->
              /\ pc' = "raised"
              /\ UNCHANGED <<data, dataRef, callerData>>
    /\ UNCHANGED <<callerLabels, args, labels, labelsRef, index, tstat, t,
                   p, permlabels, u, pvals, pvals_u, allt, allfdr, foundit,
                   reject>>

EmptyRows(d) == [i \in 1..Len(d) |-> <<>>]

UnsupportedMethodRaises == "raised"

\* print('unsupported method ...'); return None, None (371-373)
UnsupportedMethod == "sentinel"

\* labels = labels.copy() (282-285) and the observed statistic of the
\* method's branch (289-373)
Observe ==
    /\ pc = "transformed"
    /\ CASE method = "meandiff" ->
              /\ tstat' = meandiff(data, labels)
              /\ t' = AbsVec(tstat')
              /\ labelsRef' = ArrayCopy(labelsRef)
              /\ pc' = "permute"
              /\ UNCHANGED <<data, dataRef, labels, u>>
         [] method \in LoopMethods ->
              IF LoopStatRaises(method, data, labels)
              THEN /\ pc' = "raised"
                   /\ labelsRef' = ArrayCopy(labelsRef)
                   /\ UNCHANGED <<data, dataRef, labels, tstat, t, u>>
              ELSE /\ tstat' = LoopStat(method, data, labels)
                   /\ t' = AbsVec(tstat')
                   /\ u' = EmptyRows(data)
                   /\ labelsRef' = ArrayCopy(labelsRef)
                   /\ pc' = "permute"
                   /\ UNCHANGED <<data, dataRef, labels>>
         [] method \in CorrMethods ->
              LET d0 == IF method = "spearman" THEN rankdata(data) ELSE data
                  l0 == IF method = "spearman" THEN MidRank(labels)
                        ELSE labels
              IN  /\ data' = CenterRows(d0)
                  /\ dataRef' = "local"
                  /\ labels' = Center(l0)
                  /\ labelsRef' = "local"
                  /\ tstat' = MatVec(data', labels')
                  /\ t' = AbsVec(tstat')
                  /\ pc' = "permute"
                  /\ UNCHANGED u
         [] method \in NonzeroMethods ->
              /\ tstat' = [i \in 1..Len(data) |->
                              Dot(SampleNonzero(data[i], method),
                                  LabelNonzero(data[i], labels, method))]
              /\ t' = AbsVec(tstat')
              /\ u' = EmptyRows(data)
              /\ labelsRef' = ArrayCopy(labelsRef)
              /\ pc' = "permute"
              /\ UNCHANGED <<data, dataRef, labels>>
         [] IsFunctionType(method) ->
              /\ t' = UserStat(data, labels)
              /\ tstat' = t'
              /\ u' = EmptyRows(data)
              /\ labelsRef' = ArrayCopy(labelsRef)
              /\ pc' = "permute"
              /\ UNCHANGED <<data, dataRef, labels>>
         [] OTHER ->
              /\ pc' = UnsupportedMethod
              /\ labelsRef' = ArrayCopy(labelsRef)
              /\ UNCHANGED <<data, dataRef, labels, tstat, t, u>>
    /\ UNCHANGED <<callerData, callerLabels, args, index, p, permlabels,
                   pvals, pvals_u, allt, allfdr, foundit, reject>>

\* how many label permutations the method's branch draws
NumDraws ==
    IF method \in NonzeroMethods THEN Len(data) * numperm ELSE numperm

\* p[labels == 0, cperm] = k1 (300)
WeightColumn(lab, k1) ==
    [s \in 1..Len(lab) |-> IF lab[s] = Int2Rat(0) THEN k1 ELSE Int2Rat(0)]

\* one pass of the permutation loop of the method's branch (298-300,
\* 319-322, 335-337, 357-359, 367-370); permlabels records the drawn vector
Permute ==
    /\ pc = "permute"
    /\ Len(permlabels) < NumDraws
    /\ CASE method = "meandiff" ->
              \E sh \in Perms(labels) :
                 /\ labels' = sh
                 /\ callerLabels' =
                        IF labelsRef = "caller" THEN sh ELSE callerLabels
                 /\ p' = Append(p, WeightColumn(sh,
                            RDiv(Int2Rat(1),
                                 Int2Rat(Count(EqMask(labels, 0))))))
                 /\ permlabels' = Append(permlabels, sh)
                 /\ UNCHANGED u
         [] method \in CorrMethods ->
              \E rlabels \in Perms(labels) :
                 /\ permlabels' = Append(permlabels, rlabels)
                 /\ UNCHANGED <<labels, callerLabels, p, u>>
         [] method \in NonzeroMethods ->
              LET i == (Len(permlabels) \div numperm) + 1
              IN  \E rlabels \in Perms(LabelNonzero(data[i], labels, method)) :
                     /\ permlabels' = Append(permlabels, rlabels)
                     /\ u' = [u EXCEPT ![i] =
                                Append(@, RAbs(Dot(
                                    SampleNonzero(data[i], method),
                                    rlabels)))]
                     /\ UNCHANGED <<labels, callerLabels, p>>
         [] OTHER ->
              \E rlabels \in Perms(labels) :
                 /\ permlabels' = Append(permlabels, rlabels)
                 /\ u' = [i \in 1..Len(data) |->
                             Append(u[i], LoopStat(method, data, rlabels)[i])]
                 /\ UNCHANGED <<labels, callerLabels, p>>
    /\ UNCHANGED <<pc, callerData, args, data, dataRef, labelsRef, index,
                   tstat, t, pvals, pvals_u, allt, allfdr, foundit, reject>>

\* p2 without line 302
P2ColumnOnes(pcol, k2) == [s \in 1..Len(pcol) |-> k2]

\* p2 = np.ones(p.shape) * k2; p2[p > 0] = 0 (301-302), one column
P2Column(pcol, k2) ==
    [s \in 1..Len(pcol) |->
        IF RLt(Int2Rat(0), pcol[s]) THEN Int2Rat(0) ELSE k2]

\* every column of the null computed from the labels as the last shuffle
\* left them
NullMatrixLastShuffle(m, d, lab, pp, pl, uu) ==
    IF m = "meandiff"
    THEN [i \in 1..Len(d) |->
            [c \in 1..Len(pp) |-> RAbs(meandiff(d, lab)[i])]]
    ELSE IF m \in CorrMethods
    THEN [i \in 1..Len(d) |->
            [c \in 1..Len(pl) |-> RAbs(Dot(d[i], pl[Len(pl)]))]]
    ELSE uu

\* the null matrix u once the loop is over: the matrix products of the
\* meandiff branch (301-305) and of the correlation branch (338); the other
\* branches filled u in their loops
NullMatrix(m, d, lab, pp, pl, uu) ==
    IF m = "meandiff"
    THEN LET k2 == RDiv(Int2Rat(1), Int2Rat(Count(EqMask(lab, 1))))
         IN  [i \in 1..Len(d) |->
                [c \in 1..Len(pp) |->
                    RAbs(RSub(Dot(d[i], pp[c]),
                              Dot(d[i], P2Column(pp[c], k2))))]]
    ELSE IF m \in CorrMethods
    THEN [i \in 1..Len(d) |->
            [c \in 1..Len(pl) |-> RAbs(Dot(d[i], pl[c]))]]
    ELSE uu

\* after the loop: the null matrix, the isclose fix (375-379) and the rank
\* p-values (381-391).  How scipy ranks nan depends on its version; a call
\* whose statistics hold a nan ends in "nan", its outputs left open.
NullAndPvals ==
    /\ pc = "permute"
    /\ Len(permlabels) = NumDraws
    /\ LET uu == NullMatrix(method, data, labels, p, permlabels, u)
       IN  /\ u' = SnapClose(t, uu)
           /\ IF HasNaN(t, uu)
              THEN /\ pc' = "nan"
                   /\ UNCHANGED <<pvals, pvals_u>>
              ELSE /\ pc' = "pvals"
                   /\ pvals' = PvalsOf(t, u')
                   /\ pvals_u' = PvalsUOf(t, u')
    /\ UNCHANGED <<callerData, callerLabels, args, data, dataRef, labels,
                   labelsRef, index, tstat, t, p, permlabels, allt, allfdr,
                   foundit, reject>>

\* the FDR procedure (393-436) and the return of (reject, tstat, pvals)
Fdr ==
    /\ pc = "pvals"
    /\ CASE fdr_method = "dsfdr" ->
              LET r == Search(SortP(pvals), 1, pvals, pvals_u, numperm, alpha)
              IN  /\ allt' = r.allt
                  /\ allfdr' = r.allfdr
                  /\ foundit' = r.foundit
                  /\ reject' = DsfdrReject(pvals, r.foundit, r.allt)
                  /\ pc' = "done"
                  /\ UNCHANGED pvals
         [] fdr_method \in {"bhfdr", "filterBH"} ->
              /\ pvals' = TailPvalue(t, u, numperm)
              /\ reject' = fdr_bh(pvals', alpha)
              /\ pc' = "done"
              /\ UNCHANGED <<allt, allfdr, foundit>>
         [] fdr_method = "byfdr" ->
              /\ pvals' = TailPvalue(t, u, numperm)
              /\ reject' = fdr_by(pvals', alpha)
              /\ pc' = "done"
              /\ UNCHANGED <<allt, allfdr, foundit>>
         [] OTHER ->
              /\ pc' = "raised"
              /\ UNCHANGED <<pvals, reject, allt, allfdr, foundit>>
    /\ UNCHANGED <<callerData, callerLabels, args, data, dataRef, labels,
                   labelsRef, index, tstat, t, p, permlabels, u, pvals_u>>

Next ==
    \/ CopyData
    \/ Filter
    \/ Transform
    \/ Observe
    \/ Permute
    \/ NullAndPvals
    \/ Fdr

Spec == Init /\ [][Next]_vars

----------------------------------------------------------------------------
(* Properties of the discrete FDR threshold search *)

Returned == pc = "done"

NumFeatures == Len(callerData)

\* R(cp): the features whose observed p-value is at most cp
Observed(cp) == {i \in 1..Len(pvals) : RLeq(pvals[i], cp)}

\* the permuted pseudo-p-values (i, j) at most cp
Permuted(cp) ==
    {ij \in (1..Len(pvals_u)) \X (1..numperm) :
        RLeq(pvals_u[ij[1]][ij[2]], cp)}

\* (R(cp) + #Permuted(cp)) / (R(cp) * (numperm + 1)) <= a, cross-multiplied
MeetsTarget(cp, a) ==
    (Cardinality(Observed(cp)) + Cardinality(Permuted(cp))) * a[2]
        <= a[1] * Cardinality(Observed(cp)) * (numperm + 1)

Candidates == {pvals[i] : i \in 1..Len(pvals)}

Acceptable(a) == {cp \in Candidates : MeetsTarget(cp, a)}

\* cp*: the largest acceptable candidate
Threshold(a) ==
    CHOOSE cp \in Acceptable(a) : \A c \in Acceptable(a) : RLeq(c, cp)

IsDescending(x) == \A k \in 1..(Len(x) - 1) : RLt(x[k + 1], x[k])

\* C1: under fdr_method 'dsfdr' the features rejected are exactly those with
\* observed p-value <= cp*, the largest unique observed p-value whose
\* estimated FDR is <= alpha; the candidates examined are the unique
\* p-values >= cp*, largest first, and none below cp* is examined.
C1_ThresholdSearch ==
    (Returned /\ fdr_method = "dsfdr" /\ Acceptable(alpha) # {}) =>
        LET cpstar == Threshold(alpha)
        IN  /\ reject = [i \in 1..Len(pvals) |-> RLeq(pvals[i], cpstar)]
            /\ IsDescending(allt)
            /\ {allt[k] : k \in 1..Len(allt)} =
                   {c \in Candidates : RLeq(cpstar, c)}

\* a call that accepted its second candidate and left a smaller one unexamined
C1_Witness ==
    /\ Returned
    /\ fdr_method = "dsfdr"
    /\ foundit
    /\ Len(allt) = 2
    /\ Cardinality(Candidates) = 3

\* C2: under 'dsfdr', when no candidate has estimated FDR <= alpha the call
\* returns (it does not raise) a reject vector that is False everywhere,
\* with a statistic and a p-value for every feature.
C2_NoThreshold ==
    (pc \in {"done", "raised"} /\ fdr_method = "dsfdr" /\ pvals # <<>>
        /\ Acceptable(alpha) = {}) =>
        /\ pc = "done"
        /\ reject = [i \in 1..NumFeatures |-> FALSE]
        /\ Len(tstat) = NumFeatures
        /\ Len(pvals) = NumFeatures
        /\ \A i \in 1..NumFeatures :
              RLt(Int2Rat(0), pvals[i]) /\ RLeq(pvals[i], Int2Rat(1))

C2_Witness ==
    /\ Returned
    /\ fdr_method = "dsfdr"
    /\ Acceptable(alpha) = {}
    /\ Cardinality(Candidates) >= 2
    /\ NumFeatures >= 2

\* the rejection vector of the dsfdr branch on the same p-values at level a
RejectAt(a) ==
    LET r == Search(SortP(pvals), 1, pvals, pvals_u, numperm, a)
    IN  DsfdrReject(pvals, r.foundit, r.allt)

AlphaGrid == Alphas \cup {Rat(k, 12) : k \in 1..12}

Implies(x, y) == \A i \in 1..Len(x) : x[i] => y[i]

\* C3: on the same matrix, labels, method, transform and permutations, every
\* feature rejected by 'dsfdr' at a level is rejected at every larger level:
\* what this call rejects is rejected at every larger alpha, and what a
\* smaller alpha rejects this call rejects.
C3_MonotoneInAlpha ==
    (Returned /\ fdr_method = "dsfdr") =>
        \A a \in AlphaGrid :
            LET r == RejectAt(a)
            IN  /\ RLeq(alpha, a) => Implies(reject, r)
                /\ RLeq(a, alpha) => Implies(r, reject)

\* a call that rejects something, and strictly more at a larger level
C3_Witness ==
    /\ Returned
    /\ fdr_method = "dsfdr"
    /\ \E i \in 1..Len(reject) : reject[i]
    /\ reject = RejectAt(alpha)
    /\ \E a2 \in AlphaGrid :
          /\ RLt(alpha, a2)
          /\ \E i \in 1..Len(reject) : ~reject[i] /\ RejectAt(a2)[i]

----------------------------------------------------------------------------
(* Properties of the returned arrays and of the p-values *)

Group0 == Count(EqMask(callerLabels, 0))

Group1 == Count(EqMask(callerLabels, 1))

Nonzeros(i) ==
    Cardinality({s \in 1..Len(callerData[i]) :
                    callerData[i][s] # Int2Rat(0)})

\* (C(n0,k) + C(n1,k)) / C(n0+n1,k) <= alpha for row i, cross-multiplied
MinPvalueReaches(i) ==
    (Comb(Group0, Nonzeros(i)) + Comb(Group1, Nonzeros(i))) * alpha[2]
        <= alpha[1] * Comb(Group0 + Group1, Nonzeros(i))

\* the rows the filter keeps: as many nonzero entries as the smaller group,
\* or a minimum achievable p-value within alpha
KeptFeatures ==
    {i \in 1..NumFeatures :
        Nonzeros(i) >= Min2(Group0, Group1) \/ MinPvalueReaches(i)}

PermStat(i, c) ==
    CASE method = "meandiff" -> meandiff(data, permlabels[c])[i]
      [] method \in CorrMethods -> Dot(data[i], permlabels[c])
      [] method \in NonzeroMethods ->
            Dot(SampleNonzero(data[i], method),
                permlabels[(i - 1) * numperm + c])
      [] OTHER -> LoopStat(method, data, permlabels[c])[i]

\* |observed statistic| of feature i, then its numperm |permuted statistics|
AbsPool(i) ==
    <<RAbs(tstat[i])>> \o [c \in 1..numperm |-> RAbs(PermStat(i, c))]

\* C5: under 'dsfdr' the p-value of a feature is 1 - (rank - 1)/(numperm+1),
\* rank being the minimum rank of the observed |statistic| in the pool of
\* that value and the numperm permuted |statistics|, whatever the method.
C5_PooledAbsRank ==
    (Returned /\ fdr_method = "dsfdr") =>
        \A i \in 1..Len(pvals) :
            LET rank == 1 + Cardinality({k \in 1..(numperm + 1) :
                                RLt(AbsPool(i)[k], AbsPool(i)[1])})
            IN  pvals[i] = RSub(Int2Rat(1), Rat(rank - 1, numperm + 1))

\* the same for the methods whose branch takes |.| of the permuted values,
\* on the matrices where no two statistics are within the isclose tolerance
AbsBranchesRankAbsPool ==
    (method # "stdmeandiff" /\ ~IsFunctionType(method)
        /\ callerData # NearTie) => C5_PooledAbsRank

C7_TailCountAbs ==
    (Returned /\ fdr_method \in {"bhfdr", "byfdr", "filterBH"}) =>
        \A i \in 1..Len(pvals) :
            pvals[i][1] * (numperm + 1) =
                pvals[i][2] * (1 + Cardinality({c \in 1..numperm :
                    RGeq(RAbs(PermStat(i, c)), RAbs(tstat[i]))}))

AbsBranchesTailCount ==
    (method # "stdmeandiff" /\ ~IsFunctionType(method)
        /\ callerData # NearTie) => C7_TailCountAbs

Filtered == pc \notin {"start", "copied"}

IndexSet == {index[k] : k \in 1..Len(index)}

\* C8: under 'filterBH' a feature is discarded exactly when its minimum
\* achievable p-value (C(n0,k) + C(n1,k)) / C(n0+n1,k) exceeds alpha.
C8_DiscardIffMinPvalue ==
    (Filtered /\ fdr_method = "filterBH") =>
        \A i \in 1..NumFeatures : (i \notin IndexSet) <=> ~MinPvalueReaches(i)

\* what the filter does: it discards a feature exactly when it has fewer
\* nonzero entries than the smaller group and that p-value exceeds alpha
FilterKeepsKeptFeatures ==
    (Filtered /\ fdr_method = "filterBH") => IndexSet = KeptFeatures

\* the input matrix restricted to the rows of index, in order
KeptRows == [k \in 1..Len(index) |-> callerData[index[k]]]

TransformedBy(tr, d) ==
    CASE tr = "rankdata"   -> rankdata(d)
      [] tr = "log2data"   -> log2data(d)
      [] tr = "binarydata" -> binarydata(d)
      [] tr = "normdata"   -> normdata(d)
      [] OTHER             -> d

\* a whole 'bhfdr' call on matrix d0 and labels lab0 with this call's
\* transform, method, alpha and numperm and the label vectors it drew, the
\* null recomputed draw by draw
BhfdrOn(d0, lab0) ==
    LET d1  == TransformedBy(transform_type, d0)
        d   == IF method \in CorrMethods
               THEN CenterRows(IF method = "spearman" THEN rankdata(d1)
                               ELSE d1)
               ELSE d1
        lab == IF method \in CorrMethods
               THEN Center(IF method = "spearman" THEN MidRank(lab0)
                           ELSE lab0)
               ELSE lab0
        ts  == CASE method = "meandiff" -> meandiff(d, lab)
                 [] method \in CorrMethods -> MatVec(d, lab)
                 [] method \in NonzeroMethods ->
                       [i \in 1..Len(d) |->
                           Dot(SampleNonzero(d[i], method),
                               LabelNonzero(d[i], lab, method))]
                 [] OTHER -> LoopStat(method, d, lab)
        tt  == IF IsFunctionType(method) THEN ts ELSE AbsVec(ts)
        uu  == [i \in 1..Len(d) |-> [c \in 1..numperm |->
                  CASE method = "meandiff" ->
                          RAbs(meandiff(d, permlabels[c])[i])
                    [] method \in CorrMethods ->
                          RAbs(Dot(d[i], permlabels[c]))
                    [] method \in NonzeroMethods ->
                          RAbs(Dot(SampleNonzero(d[i], method),
                                   permlabels[(i - 1) * numperm + c]))
                    [] OTHER -> LoopStat(method, d, permlabels[c])[i]]]
        pv  == TailPvalue(tt, SnapClose(tt, uu), numperm)
    IN  <<fdr_bh(pv, alpha), ts, pv>>

C10_CallerArraysUnchanged ==
    [][callerData' = callerData /\ callerLabels' = callerLabels]_vars

\* a finished call that clipped or binarised its matrix and shuffled its
\* labels, all in place
C10_Witness ==
    /\ pc \in {"done", "raised"}
    /\ transform_type \in {"log2data", "binarydata"}
    /\ method = "meandiff"
    /\ data # callerData
    /\ labels # callerLabels
    /\ dataRef = "local"
    /\ labelsRef = "local"

----------------------------------------------------------------------------
(* Errors and the dispatch on method *)

SupportedTransforms == {"rankdata", "log2data", "binarydata", "normdata", "None"}

SupportedFdrMethods == {"dsfdr", "bhfdr", "byfdr", "filterBH"}

RecognisedMethods ==
    {"meandiff"} \cup LoopMethods \cup CorrMethods \cup NonzeroMethods

\* no statistic, no permutation and no p-value has been computed
NothingComputed == tstat = <<>> /\ permlabels = <<>> /\ pvals = <<>>

\* C11: a call with an unsupported transform or an unsupported fdr_method
\* never computes a statistic or a permutation and never returns a result
\* or the sentinel (it can only end by raising).
C11_RejectedBeforeComputation ==
    (transform_type \notin SupportedTransforms
        \/ fdr_method \notin SupportedFdrMethods) =>
        /\ NothingComputed
        /\ pc \notin {"done", "sentinel"}

\* the half that holds: an unsupported transform raises before anything is
\* computed
UnsupportedTransformRaisesFirst ==
    transform_type \notin SupportedTransforms =>
        /\ NothingComputed
        /\ pc \in {"start", "copied", "filtered", "raised"}

\* C12: with a supported transform and a method that is neither a
\* recognised name nor a callable, the call never raises and never draws a
\* permutation: it is on its way to the dispatch or has returned the
\* sentinel.
C12_UnrecognisedMethodSentinel ==
    (method \notin RecognisedMethods \cup Callables
        /\ transform_type \in SupportedTransforms) =>
        /\ pc \in {"start", "copied", "filtered", "transformed", "sentinel"}
        /\ NothingComputed
        /\ reject = <<>>

\* the sentinel returned under 'filterBH' after an in-place transform
C12_Witness ==
    /\ pc = "sentinel"
    /\ method = "bogus"
    /\ transform_type = "binarydata"
    /\ fdr_method = "filterBH"
    /\ data # callerData

PastDispatch == pc \notin {"start", "copied", "filtered", "transformed"}

\* the call went to the callable for the observed statistic and for every
\* permutation drawn so far, and did not return the sentinel
Dispatched ==
    /\ pc # "sentinel"
    /\ tstat = UserStat(data, callerLabels)
    /\ pc = "permute" =>
          \A c \in 1..Len(permlabels) : \A i \in 1..Len(data) :
              u[i][c] = UserStat(data, permlabels[c])[i]

\* C13: whatever kind of callable method is (plain function, lambda, bound
\* method, partial application, callable object, built-in), the call
\* dispatches to it for the observed statistic and for each permutation and
\* never returns the unsupported-method sentinel.
C13_EveryCallableDispatched ==
    (method \in Callables /\ transform_type \in SupportedTransforms
        /\ PastDispatch) => Dispatched

\* the same for the callables of type types.FunctionType alone
FunctionTypesDispatched ==
    (IsFunctionType(method) /\ transform_type \in SupportedTransforms
        /\ PastDispatch) => Dispatched

----------------------------------------------------------------------------
(* Relations between calls *)

\* a matrix as a tuple of tuples: every entry computed once
Materialise(m) == [i \in 1..Len(m) |-> m[i] \o <<>>] \o <<>>

\* the outputs of a whole call with this call's transform, method, alpha,
\* numperm and fdr_method on matrix d0 and labels lab0 when the label
\* vectors drawn are `draws`, computed in one piece
Outcome(d0, lab0, draws) ==
    LET dk  == IF fdr_method = "filterBH"
               THEN Materialise(TakeRows(d0, KeptIndex(d0, lab0, alpha)))
               ELSE d0
        d1  == Materialise(TransformedBy(transform_type, dk))
        d   == Materialise(
                   IF method \in CorrMethods
                   THEN CenterRows(IF method = "spearman" THEN rankdata(d1)
                                   ELSE d1)
                   ELSE d1)
        lab == IF method \in CorrMethods
               THEN Center(IF method = "spearman" THEN MidRank(lab0)
                           ELSE lab0) \o <<>>
               ELSE lab0
        ts  == CASE method = "meandiff" -> meandiff(d, lab) \o <<>>
                 [] method \in CorrMethods -> MatVec(d, lab) \o <<>>
                 [] method \in NonzeroMethods ->
                       [i \in 1..Len(d) |->
                           Dot(SampleNonzero(d[i], method),
                               LabelNonzero(d[i], lab, method))] \o <<>>
                 [] OTHER -> LoopStat(method, d, lab) \o <<>>
        tt  == IF IsFunctionType(method) THEN ts ELSE AbsVec(ts) \o <<>>
        \* the statistic of every feature on each drawn label vector
        us  == [c \in 1..numperm |->
                  CASE method = "meandiff" ->
                          AbsVec(meandiff(d, draws[c])) \o <<>>
                    [] method \in CorrMethods ->
                          AbsVec(MatVec(d, draws[c])) \o <<>>
                    [] method \in NonzeroMethods -> <<>>
                    [] OTHER -> LoopStat(method, d, draws[c]) \o <<>>] \o <<>>
        sn  == [i \in 1..Len(d) |->
                  SampleNonzero(d[i], method) \o <<>>] \o <<>>
        uu  == Materialise(
                   IF method \in NonzeroMethods
                   THEN [i \in 1..Len(d) |-> [c \in 1..numperm |->
                           RAbs(Dot(sn[i], draws[(i - 1) * numperm + c]))]]
                   ELSE [i \in 1..Len(d) |->
                           [c \in 1..numperm |-> us[c][i]]])
        su  == Materialise(SnapClose(tt, uu))
        pv  == IF fdr_method = "dsfdr" THEN PvalsOf(tt, su) \o <<>>
               ELSE TailPvalue(tt, su, numperm) \o <<>>
        rj  == CASE fdr_method = "dsfdr" ->
                       LET pu == Materialise(PvalsUOf(tt, su))
                           r  == Search(SortP(pv), 1, pv, pu, numperm, alpha)
                       IN  DsfdrReject(pv, r.foundit, r.allt)
                 [] fdr_method = "byfdr" -> fdr_by(pv, alpha)
                 [] OTHER -> fdr_bh(pv, alpha)
    IN  <<rj, ts, pv>>

Reorder(x, sigma) == [k \in 1..Len(x) |-> x[sigma[k]]]

\* the columns (samples) of a matrix reordered
ReorderCols(d, sigma) == [i \in 1..Len(d) |-> Reorder(d[i], sigma)]

\* the positions where mask holds, ascending
Positions(mask) == Select([s \in 1..Len(mask) |-> s], mask)

IndexIn(x, v) == CHOOSE k \in 1..Len(x) : x[k] = v

\* a vector v over the nonzero samples of row, carried to the nonzero
\* samples of the reordered row
ReorderNonzero(row, v, sigma) ==
    LET old == Positions(NonzeroMask(row))
        new == Positions(NonzeroMask(Reorder(row, sigma)))
    IN  [k \in 1..Len(new) |-> v[IndexIn(old, sigma[new[k]])]]

\* the label vectors this call drew, their samples reordered the same way
ReorderDraws(sigma) ==
    IF method \in NonzeroMethods
    THEN [n \in 1..Len(permlabels) |->
            ReorderNonzero(data[((n - 1) \div numperm) + 1], permlabels[n],
                           sigma)]
    ELSE [n \in 1..Len(permlabels) |-> Reorder(permlabels[n], sigma)]

SampleOrders == Permutations(1..Len(callerLabels))

\* the calls whose outputs are recomputed under every order of the samples:
\* every transform and every FDR procedure with 'meandiff', and each other
\* method that returns
SampleOrderCall ==
    /\ callerLabels = [s \in 1..4 |-> Int2Rat(<<0, 0, 1, 1>>[s])]
    /\ alpha = Rat(1, 2)
    /\ \/ method = "meandiff" /\ fdr_method = "dsfdr"
             /\ callerData = ZeroFeature
       \/ method = "meandiff" /\ transform_type = "rankdata"
             /\ callerData = ZeroFeature
       \/ method \in {"stdmeandiff", "spearman", "pearson", "userfunc"}
             /\ fdr_method = "dsfdr" /\ callerData = SparseFeatures
       \/ method = "nonzerospearman" /\ fdr_method = "dsfdr"
             /\ callerData = TwinFeatures

InitSamples == Init /\ SampleOrderCall

SpecSamples == InitSamples /\ [][Next]_vars

\* C15: reordering the samples by one permutation, applied to the columns
\* of the matrix, to the label vector and to the label vectors drawn,
\* leaves every statistic, every p-value and the rejection vector unchanged.
C15_SampleOrderInvariant ==
    Returned =>
        \A sigma \in SampleOrders :
            Outcome(Materialise(ReorderCols(callerData, sigma)),
                    Reorder(callerLabels, sigma) \o <<>>,
                    Materialise(ReorderDraws(sigma))) = <<reject, tstat, pvals>>

\* a return that rejects a feature, on a matrix and labels that some
\* reordering changes
C15_Witness ==
    /\ Returned
    /\ \E i \in 1..Len(reject) : reject[i]
    /\ \E sigma \in SampleOrders :
          /\ ReorderCols(callerData, sigma) # callerData
          /\ Reorder(callerLabels, sigma) # callerLabels
          /\ ReorderDraws(sigma) # permlabels

\* a rank transform with any statistic, or a rank-based statistic
RankBased ==
    \/ transform_type = "rankdata"
    \/ method \in {"mannwhitney", "kruwallis", "spearman", "nonzerospearman"}

\* the row of the input matrix that entry k of the outputs is about
OutputRow(k) == IF fdr_method = "filterBH" THEN index[k] ELSE k

\* the outputs agree on every two features whose input rows are identical
DuplicatesAgree ==
    \A j, k \in 1..Len(pvals) :
        callerData[OutputRow(j)] = callerData[OutputRow(k)] =>
            /\ tstat[j] = tstat[k]
            /\ pvals[j] = pvals[k]
            /\ reject[j] = reject[k]

\* C16: with a rank-based method, two identical rows of the matrix get the
\* same statistic, the same p-value and the same rejection decision.
C16_DuplicateRowsAgree == (Returned /\ RankBased) => DuplicatesAgree

\* the same for the methods that draw one set of permutations for all
\* features
SharedDrawsDuplicatesAgree ==
    (Returned /\ method \notin NonzeroMethods) => DuplicatesAgree

----------------------------------------------------------------------------
(* The statistics *)

\* the rows the statistic is computed on: the kept rows, transformed
InputRows == IF fdr_method = "filterBH" THEN KeptRows ELSE callerData

TransformedRows == TransformedBy(transform_type, InputRows)

\* the sum of the entries of x at the positions labelled v
SumWhere(x, lab, v) ==
    RSum([s \in 1..Len(x) |->
            IF lab[s] = Int2Rat(v) THEN x[s] ELSE Int2Rat(0)])

GroupSize(lab, v) == Cardinality({s \in 1..Len(lab) : lab[s] = Int2Rat(v)})

\* the classic Mann-Whitney U of a row: midranks of the pooled values,
\* Ux = n0*n1 + n0*(n0+1)/2 - (rank sum of group 0), U = min(Ux, n0*n1 - Ux)
ClassicU(row, lab) ==
    LET n0 == GroupSize(lab, 0)
        n1 == GroupSize(lab, 1)
        Ux == RSub(Rat(2 * n0 * n1 + n0 * (n0 + 1), 2),
                   SumWhere(MidRank(row), lab, 0))
        Uy == RSub(Int2Rat(n0 * n1), Ux)
    IN  IF RLeq(Ux, Uy) THEN Ux ELSE Uy

\* the call got past the statistic of a method of the permutation loop
StatisticCompleted == ~(pc = "raised" /\ tstat = <<>>)

\* C17: with method 'mannwhitney', labels in {0,1} and a sample in each
\* group, the statistic of every feature is the classic Mann-Whitney U and
\* its computation completes without error.
C17_MannWhitneyU ==
    (method = "mannwhitney" /\ transform_type \in SupportedTransforms
        /\ PastDispatch) =>
        /\ StatisticCompleted
        /\ tstat = [i \in 1..Len(data) |-> ClassicU(data[i], callerLabels)]

\* what the call does instead: with 'mannwhitney' or 'kruwallis' it raises
\* at the first statistic, on every matrix
RankLoopMethodsRaise ==
    (method \in {"mannwhitney", "kruwallis"}
        /\ transform_type \in SupportedTransforms /\ PastDispatch) =>
        pc = "raised" /\ NothingComputed

AllTied(row) == \A s \in 1..Len(row) : row[s] = row[1]

\* 1 - sum over the distinct values of (c^3 - c) / (N^3 - N), c the number
\* of entries holding the value
TieCorrection(row) ==
    LET N == Len(row)
        same(s) == Cardinality({k \in 1..N : row[k] = row[s]})
    IN  RSub(Int2Rat(1),
             Rat(ISum([s \in 1..N |-> same(s) * same(s) - 1]),
                 N * N * N - N))

\* Kruskal-Wallis H of a row over the groups 0..G-1, divided by the tie
\* correction: (12 / (N(N+1)) * sum of R_j^2 / n_j - 3(N+1)) / T
KruskalWallisH(row, lab) ==
    LET N == Len(row)
        G == NumUnique(lab)
        R(j) == SumWhere(MidRank(row), lab, j)
        ssbn == RSum([g \in 1..G |->
                        RDiv(RMul(R(g - 1), R(g - 1)),
                             Int2Rat(GroupSize(lab, g - 1)))])
        h == RSub(RMul(Rat(12, N * (N + 1)), ssbn), Int2Rat(3 * (N + 1)))
    IN  RDiv(h, TieCorrection(row))

\* C18: with method 'kruwallis' the call fails with an error when there are
\* fewer than two groups or some feature's values are all tied; otherwise
\* the statistic of each feature is the tie-corrected Kruskal-Wallis H.
C18_KruskalWallis ==
    (method = "kruwallis" /\ transform_type \in SupportedTransforms
        /\ PastDispatch) =>
        IF NumUnique(callerLabels) < 2
              \/ \E i \in 1..Len(data) : AllTied(data[i])
        THEN pc = "raised" /\ tstat = <<>>
        ELSE /\ StatisticCompleted
             /\ tstat = [i \in 1..Len(data) |->
                            KruskalWallisH(data[i], callerLabels)]

\* the mean of the entries of x at the positions labelled v
MeanWhere(x, lab, v) ==
    RDiv(SumWhere(x, lab, v), Int2Rat(GroupSize(lab, v)))

\* C19: with method 'meandiff' the statistic returned for a feature is the
\* signed difference mean(samples labelled 1) - mean(samples labelled 0)
\* of the transformed row; only the p-value computation uses its absolute
\* value.
C19_MeandiffSigned ==
    (Returned /\ method = "meandiff") =>
        \A i \in 1..Len(tstat) :
            /\ tstat[i] = RSub(MeanWhere(TransformedRows[i], callerLabels, 1),
                               MeanWhere(TransformedRows[i], callerLabels, 0))
            /\ t[i] = RAbs(tstat[i])

\* a return with a negative and a positive statistic
C19_Witness ==
    /\ Returned
    /\ method = "meandiff"
    /\ \E i \in 1..Len(tstat) : RLt(tstat[i], Int2Rat(0))
    /\ \E i \in 1..Len(tstat) : RLt(Int2Rat(0), tstat[i])

\* the row (its within-row ranks for 'spearman') and the labels (their
\* ranks), each minus its mean
CorrX(i) ==
    Center(IF method = "spearman" THEN MidRank(TransformedRows[i])
           ELSE TransformedRows[i])

CorrY ==
    Center(IF method = "spearman" THEN MidRank(callerLabels)
           ELSE callerLabels)

\* r = sxy / sqrt(sxx * syy), stated without the root: r has the sign of
\* sxy, r^2 * sxx * syy = sxy^2, and |r| <= 1
IsCorrelation(r, x, y) ==
    /\ Sgn(r[1]) = Sgn(Dot(x, y)[1])
    /\ RMul(RMul(r, r), RMul(Dot(x, x), Dot(y, y))) =
           RMul(Dot(x, y), Dot(x, y))
    /\ RLeq(RAbs(r), Int2Rat(1))

\* C20: with method 'pearson' ('spearman') the statistic returned for a
\* feature is the correlation coefficient of its values (ranks) with the
\* labels (their ranks), covariance over the product of the standard
\* deviations, and so lies in [-1, 1].
C20_CorrelationCoefficient ==
    (Returned /\ method \in CorrMethods) =>
        \A i \in 1..Len(tstat) :
            (Dot(CorrX(i), CorrX(i)) # Int2Rat(0)
                /\ Dot(CorrY, CorrY) # Int2Rat(0)) =>
                IsCorrelation(tstat[i], CorrX(i), CorrY)

\* what is returned instead: the sum of products of the centred values,
\* not divided by anything
CorrelationIsCentredDot ==
    (Returned /\ method \in CorrMethods) =>
        \A i \in 1..Len(tstat) : tstat[i] = Dot(CorrX(i), CorrY)

----------------------------------------------------------------------------
(* The nonzero-restricted correlation variants *)

\* the samples in which feature i of the matrix passed to the call (after
\* the row filter) is present
PresentIn(i) == NonzeroMask(InputRows[i])

\* values restricted to the samples of a mask, ranked for 'nonzerospearman',
\* minus their mean
RestrictedTo(x, mask) ==
    LET v == Select(x, mask)
    IN  Center(IF method = "nonzerospearman" THEN MidRank(v) ELSE v)

\* C21: with 'nonzerospearman' or 'nonzeropearson' the observed statistic
\* and every permuted statistic of feature i come from the samples where
\* row i is nonzero only; each of the numperm draws of feature i rearranges
\* the labels of those samples only; the statistic the method gives with the
\* labels changed where row i is zero is the same.
C21_NonzeroSamplesOnly ==
    (Returned /\ method \in NonzeroMethods) =>
        \A i \in 1..Len(tstat) :
            LET x == RestrictedTo(TransformedRows[i], PresentIn(i))
                y == RestrictedTo(callerLabels, PresentIn(i))
                draw(c) == permlabels[(i - 1) * numperm + c]
                \* label vectors that differ from the call's only where
                \* feature i is absent
                relabelled ==
                    {lab \in [1..Len(callerLabels) ->
                                 {Int2Rat(0), Int2Rat(1)}] :
                        \A s \in 1..Len(lab) :
                            PresentIn(i)[s] => lab[s] = callerLabels[s]}
            IN  /\ tstat[i] = Dot(x, y)
                /\ \A c \in 1..numperm :
                      /\ draw(c) \in Perms(y)
                      /\ u[i][c] = RAbs(Dot(x, draw(c)))
                /\ \A lab \in relabelled :
                      Dot(SampleNonzero(data[i], method),
                          LabelNonzero(data[i], lab, method)) = tstat[i]

\* what the branch restricts to: the samples where the transformed row is
\* nonzero, which after 'rankdata' or 'log2data' is every sample
NonzeroOfTransformedRow ==
    (Returned /\ method \in NonzeroMethods) =>
        \A i \in 1..Len(tstat) :
            LET mask == NonzeroMask(TransformedRows[i])
                x == RestrictedTo(TransformedRows[i], mask)
                y == RestrictedTo(callerLabels, mask)
            IN  /\ tstat[i] = Dot(x, y)
                /\ \A c \in 1..numperm :
                      /\ permlabels[(i - 1) * numperm + c] \in Perms(y)
                      /\ u[i][c] =
                            RAbs(Dot(x, permlabels[(i - 1) * numperm + c]))

\* with no transform the restriction is to the samples where row i of the
\* input is nonzero
UntransformedNonzeroSamplesOnly ==
    transform_type \in {"None", "binarydata"} => C21_NonzeroSamplesOnly

----------------------------------------------------------------------------
(* The permutation null *)

\* the positions of a weight column that hold w
Support(col, w) == {s \in 1..Len(col) : col[s] = w}

\* C22: with method 'meandiff' the null of the matrix products is the naive
\* one, u[i, c] = |meandiff(data, labels after the c-th shuffle)[i]|; every
\* column of p holds 1/n0 at exactly n0 samples, every column of p2 holds
\* 1/n1 at exactly n1 samples, each is zero elsewhere, and the two supports
\* are disjoint and cover all samples.
C22_MatrixProductNull ==
    (Returned /\ method = "meandiff") =>
        LET k1 == Rat(1, Group0)
            k2 == Rat(1, Group1)
            S  == 1..Len(callerLabels)
            uu == NullMatrix(method, data, labels, p, permlabels, u)
        IN  /\ Len(p) = numperm
            /\ \A c \in 1..numperm :
                  LET p2 == P2Column(p[c], k2)
                  IN  /\ \A i \in 1..Len(data) :
                            uu[i][c] = RAbs(meandiff(data, permlabels[c])[i])
                      /\ Cardinality(Support(p[c], k1)) = Group0
                      /\ Cardinality(Support(p2, k2)) = Group1
                      /\ Support(p[c], Int2Rat(0)) = S \ Support(p[c], k1)
                      /\ Support(p2, Int2Rat(0)) = S \ Support(p2, k2)
                      /\ Support(p[c], k1) \cap Support(p2, k2) = {}
                      /\ Support(p[c], k1) \cup Support(p2, k2) = S

\* a return with groups of one and three samples, two different shuffles
\* and a permuted statistic that is not zero
C22_Witness ==
    /\ Returned
    /\ method = "meandiff"
    /\ Group0 = 1
    /\ Group1 = 3
    /\ numperm = 2
    /\ permlabels[1] # permlabels[2]
    /\ \E i \in 1..Len(u) : u[i][1] # Int2Rat(0) /\ u[i][1] # u[i][2]

\* the label vector as the method's branch permutes it: ranked and centred
\* for the correlations, as passed otherwise
UsedLabels(lab) ==
    CASE method \in {"spearman", "nonzerospearman"} -> Center(MidRank(lab))
      [] method \in {"pearson", "nonzeropearson"} -> Center(lab)
      [] OTHER -> lab

\* y holds the entries of x, each as many times
IsRearrangement(y, x) ==
    /\ Len(y) = Len(x)
    /\ \A k \in 1..Len(x) :
          Cardinality({j \in 1..Len(y) : y[j] = x[k]}) =
              Cardinality({j \in 1..Len(x) : x[j] = x[k]})

\* the matrix is not touched while the null is built and used
MatrixFixed ==
    [][(pc \in {"permute", "pvals"}) => (data' = data)]_vars

\* exactly numperm permuted statistics per feature
NumpermPerFeature ==
    /\ Len(permlabels) = NumDraws
    /\ Len(u) = Len(tstat)
    /\ \A i \in 1..Len(u) : Len(u[i]) = numperm

\* C23 as claimed: for every method each permuted label vector is a
\* rearrangement of the whole original label vector, the matrix is the same
\* for the observed statistic and for all permutations, and exactly numperm
\* permutations are drawn per feature.
C23_DrawsRearrangeAllLabels ==
    /\ [](Returned =>
            /\ \A k \in 1..Len(permlabels) :
                  IsRearrangement(permlabels[k], UsedLabels(callerLabels))
            /\ NumpermPerFeature)
    /\ MatrixFixed

\* C23 as amended: the same, except that with 'nonzerospearman' and
\* 'nonzeropearson' the vectors drawn for feature i are rearrangements of
\* the labels of the samples where the transformed row i is nonzero.
C23_DrawsRearrangeUsedLabels ==
    /\ [](Returned =>
            /\ \A k \in 1..Len(permlabels) :
                  IsRearrangement(permlabels[k],
                      IF method \in NonzeroMethods
                      THEN LabelNonzero(data[((k - 1) \div numperm) + 1],
                                        callerLabels, method)
                      ELSE UsedLabels(callerLabels))
            /\ NumpermPerFeature)
    /\ MatrixFixed

\* a return of a nonzero variant on a feature absent from a sample, with
\* two different draws of three labels for that feature
C23_Witness ==
    /\ Returned
    /\ method \in NonzeroMethods
    /\ numperm = 2
    /\ Len(permlabels[1]) = 3
    /\ Len(callerLabels) = 4
    /\ permlabels[1] # permlabels[2]

\* the permuted statistic of feature i and draw c as the method's branch
\* stores it in u, before the isclose fix
StoredStat(i, c) ==
    IF method = "stdmeandiff" \/ IsFunctionType(method)
    THEN PermStat(i, c) ELSE RAbs(PermStat(i, c))

\* C24: before the p-values are computed, every permuted statistic of
\* feature i within the tolerance of np.isclose of the observed t[i] is
\* replaced by exactly t[i], so it ties with t[i] in the ranking (same rank
\* p-value) and counts as >= t[i]; the others are left as computed.
C24_CloseValuesSnapped ==
    pc \in {"pvals", "done"} =>
        \A i \in 1..Len(t) : \A c \in 1..numperm :
            LET stored == StoredStat(i, c) \o <<>>
            IN  IF IsClose(t[i], stored)
                THEN /\ u[i][c] = t[i]
                     /\ pvals_u[i][c] = pvals[i]
                     /\ pvals[i] = PvalsOf(t, u)[i]
                     /\ RGeq(u[i][c], t[i])
                ELSE u[i][c] = stored

\* p-values computed from a null in which one permuted statistic, below
\* the observed one but within tolerance, was replaced and another, out of
\* tolerance, was left
C24_Witness ==
    /\ pc \in {"pvals", "done"}
    /\ numperm = 2
    /\ \E i \in 1..Len(t) :
          /\ RLt(StoredStat(i, 1), t[i])
          /\ u[i][1] = t[i]
          /\ u[i][2] # t[i]
          /\ u[i][2] = StoredStat(i, 2)

----------------------------------------------------------------------------
(* The transform functions called on their own, dsfdr.py 17-41 *)

\* the arguments of the modelled calls: every 2 x 3 matrix of the counts
\* 0, 1, 2 and 4
SmallMatrices ==
    [1..2 -> [1..3 -> {Int2Rat(0), Int2Rat(1), Int2Rat(2), Int2Rat(4)}]]

\* before a call of the function named by transform_type on the caller's
\* array: callerData is that array, data will be the value returned
InitTransforms ==
    /\ pc = "call"
    /\ callerData \in SmallMatrices
    /\ transform_type \in SupportedTransforms \ {"None"}
    /\ callerLabels = <<>>
    /\ method = "meandiff"
    /\ fdr_method = "dsfdr"
    /\ alpha = Rat(1, 2)
    /\ numperm = 1
    /\ data = callerData
    /\ dataRef = "caller"
    /\ labels = callerLabels
    /\ labelsRef = "caller"
    /\ index = <<>>
    /\ tstat = <<>>
    /\ t = <<>>
    /\ p = <<>>
    /\ permlabels = <<>>
    /\ u = <<>>
    /\ pvals = <<>>
    /\ pvals_u = <<>>
    /\ allt = <<>>
    /\ allfdr = <<>>
    /\ foundit = FALSE
    /\ reject = <<>>

\* rankdata(a), log2data(a), binarydata(a) or normdata(a): rankdata fills a
\* new array (19-22); log2data clips a in place and returns the new array
\* of np.log2 (27-29); binarydata writes into a and returns a itself
\* (34-35); normdata returns the new array of the division (40-41)
TransformCall ==
    /\ pc = "call"
    /\ pc' = "return"
    /\ data' = TransformedBy(transform_type, callerData)
    /\ callerData' =
          CASE transform_type = "log2data" -> Clip2(callerData)
            [] transform_type = "binarydata" -> binarydata(callerData)
            [] OTHER -> callerData
    /\ dataRef' = IF transform_type = "binarydata" THEN "caller" ELSE "local"
    /\ UNCHANGED <<callerLabels, args, labels, labelsRef, index, tstat, t,
                   p, permlabels, u, pvals, pvals_u, allt, allfdr, foundit,
                   reject>>

SpecTransforms == InitTransforms /\ [][TransformCall]_vars

SameShape(a, b) ==
    /\ Len(a) = Len(b)
    /\ \A i \in 1..Len(a) : Len(a[i]) = Len(b[i])

\* C25: each of rankdata, log2data, binarydata and normdata, called on its
\* own, returns a matrix of the shape of its argument and leaves the
\* argument array unchanged.
C25_TransformsLeaveArgument ==
    /\ [](pc = "return" => SameShape(data, callerData))
    /\ [][callerData' = callerData]_vars

\* the part that holds: the shape, and the argument of rankdata and normdata
TransformsKeepShape ==
    /\ [](pc = "return" => SameShape(data, callerData))
    /\ [][(transform_type \in {"rankdata", "normdata"}) =>
             (callerData' = callerData)]_vars

\* C26: rankdata replaces each row of a 2-D matrix by the within-row ranks
\* of its values, tied values all getting the average of the ranks they
\* span; each row of the result sums to S(S+1)/2 for S samples; ranking the
\* result again gives the same result.
C26_RankTransform ==
    (pc = "return" /\ transform_type = "rankdata") =>
        /\ SameShape(data, callerData)
        /\ \A i \in 1..Len(data) :
              LET row == callerData[i]
                  S == Len(row)
                  below(s) == Cardinality({k \in 1..S : RLt(row[k], row[s])})
                  tied(s) == Cardinality({k \in 1..S : row[k] = row[s]})
                  \* the mean of the places below+1 .. below+tied of the
                  \* sorted row
                  spanned(s) ==
                      Rat(ISum([k \in 1..tied(s) |-> below(s) + k]), tied(s))
              IN  /\ \A s \in 1..S : data[i][s] = spanned(s)
                  /\ RSum(data[i]) = Rat(S * (S + 1), 2)
        /\ rankdata(data) = data

\* a ranked matrix with a row of three tied values and a row with two,
\* which was not a matrix of ranks
C26_Witness ==
    /\ pc = "return"
    /\ transform_type = "rankdata"
    /\ data # callerData
    /\ data[1] = <<Int2Rat(2), Int2Rat(2), Int2Rat(2)>>
    /\ data[2] = <<Rat(3, 2), Int2Rat(3), Rat(3, 2)>>

----------------------------------------------------------------------------
(* The two p-value computations and the threshold search *)

====
